---- MODULE Spec2Model ----
(***************************************************************************)
(* Booking-to-task reconciliation and recurring-series expansion of the    *)
(* Smoobu staff planner (src/app/sync.py, src/app/jobs.py, src/app/main.py,*)
(* src/app/routers/admin.py), as a state machine over the Booking, Task,   *)
(* Apartment and TaskSeries tables.                                        *)
(*                                                                         *)
(* Python str values whose characters the code inspects (dates) are        *)
(* sequences of one-character strings; enumerations and opaque texts are   *)
(* TLA+ strings.  Python date values are triples <<year, month, day>>.     *)
(***************************************************************************)
EXTENDS Integers, Sequences, FiniteSets, TLC

VARIABLES bookings, tasks, apartments, series, today, lastOp, loop, timelogs

vars == <<bookings, tasks, apartments, series, today, lastOp, loop, timelogs>>

(***************************************************************************)
(* Null values: NULL is None / SQL NULL in an integer-typed place (ids and  *)
(* counts are never negative), None is None in a place holding a str whose *)
(* characters are modelled, NoneStr is None in a place holding an opaque   *)
(* text or an enumeration.                                                 *)
(***************************************************************************)
NULL == -1
None == <<"None">>
NoneStr == "NULL"

\* Python truthiness of an Optional[int]
Truthy(n) == n # NULL /\ n # 0

(***************************************************************************)
(* Python str: comparison, strip, slicing, count                          *)
(***************************************************************************)
\* The characters used, in code-point order.
Alphabet == <<" ", ",", "-", ".", "0", "1", "2", "3", "4", "5", "6", "7", "8", "9",
              "M", "T", "a", "d", "e", "f", "h", "m", "o", "r", "s", "t", "u", "w", "x">>

CodePoint(c) == CHOOSE i \in 1..Len(Alphabet) : Alphabet[i] = c

Min(a, b) == IF a <= b THEN a ELSE b
Max(a, b) == IF a >= b THEN a ELSE b

\* a < b for Python str a, b (lexicographic by code point, a proper prefix is smaller).
RECURSIVE StrLess(_, _)
StrLess(a, b) ==
    IF b = <<>> THEN FALSE
    ELSE IF a = <<>> THEN TRUE
    ELSE IF Head(a) = Head(b) THEN StrLess(Tail(a), Tail(b))
    ELSE CodePoint(Head(a)) < CodePoint(Head(b))

StrLeq(a, b) == a = b \/ StrLess(a, b)

\* s[:n]
Prefix(s, n) == SubSeq(s, 1, Min(n, Len(s)))

\* s.count(c)
Count(s, c) == Cardinality({i \in 1..Len(s) : s[i] = c})

\* s.strip() (of blanks)
RECURSIVE LStrip(_)
LStrip(s) == IF s # <<>> /\ Head(s) = " " THEN LStrip(Tail(s)) ELSE s
RECURSIVE RStrip(_)
RStrip(s) == IF s # <<>> /\ s[Len(s)] = " " THEN RStrip(SubSeq(s, 1, Len(s) - 1)) ELSE s
Strip(s) == RStrip(LStrip(s))

\* "not s or not s.strip()" for a str or None
Blank(s) == s = None \/ s = <<>> \/ Strip(s) = <<>>

\* "len(s) != 10 or s.count('-') != 2"
BadFormat(s) == Len(s) # 10 \/ Count(s, "-") # 2

IsDigit(c) == c \in {"0", "1", "2", "3", "4", "5", "6", "7", "8", "9"}
DigitVal(c) == CodePoint(c) - CodePoint("0")
DigitChar(n) == Alphabet[CodePoint("0") + n]

\* int(s) of a non-empty string of digits
RECURSIVE DigitsVal(_)
DigitsVal(s) == IF s = <<>> THEN 0 ELSE 10 * DigitsVal(SubSeq(s, 1, Len(s) - 1)) + DigitVal(s[Len(s)])

AllDigits(s) == s # <<>> /\ \A i \in 1..Len(s) : IsDigit(s[i])

\* s.split(sep): the parts between the separators
RECURSIVE Split(_, _)
Split(s, sep) ==
    IF \A i \in 1..Len(s) : s[i] # sep THEN <<s>>
    ELSE LET k == CHOOSE i \in 1..Len(s) : s[i] = sep /\ \A j \in 1..(i - 1) : s[j] # sep
         IN  <<SubSeq(s, 1, k - 1)>> \o Split(SubSeq(s, k + 1, Len(s)), sep)

(***************************************************************************)
(* Python datetime.date as <<year, month, day>>                           *)
(***************************************************************************)
IsLeap(y) == (y % 4 = 0) /\ ((y % 100 # 0) \/ (y % 400 = 0))

\* calendar.monthrange(y, m)[1]
DaysInMonth(y, m) ==
    IF m = 2 THEN (IF IsLeap(y) THEN 29 ELSE 28)
    ELSE IF m \in {4, 6, 9, 11} THEN 30 ELSE 31

ValidDate(y, m, d) == y \in 1..9999 /\ m \in 1..12 /\ d \in 1..DaysInMonth(y, m)

RECURSIVE DaysBeforeMonth(_, _)
DaysBeforeMonth(y, m) == IF m = 1 THEN 0 ELSE DaysBeforeMonth(y, m - 1) + DaysInMonth(y, m - 1)

\* date.toordinal(): 0001-01-01 is day 1
ToOrdinal(d) ==
    LET y == d[1] - 1
    IN  y * 365 + (y \div 4) - (y \div 100) + (y \div 400) + DaysBeforeMonth(d[1], d[2]) + d[3]

\* date.weekday(): Monday is 0
Weekday(d) == (ToOrdinal(d) + 6) % 7

DateLess(a, b) ==
    \/ a[1] < b[1]
    \/ a[1] = b[1] /\ a[2] < b[2]
    \/ a[1] = b[1] /\ a[2] = b[2] /\ a[3] < b[3]
DateLeq(a, b) == a = b \/ DateLess(a, b)
DateMin(a, b) == IF DateLeq(a, b) THEN a ELSE b
DateMax(a, b) == IF DateLeq(a, b) THEN b ELSE a

\* d + timedelta(days=1)
NextDay(d) ==
    IF d[3] < DaysInMonth(d[1], d[2]) THEN <<d[1], d[2], d[3] + 1>>
    ELSE IF d[2] < 12 THEN <<d[1], d[2] + 1, 1>>
    ELSE <<d[1] + 1, 1, 1>>

\* d + timedelta(days=n), n >= 0
RECURSIVE AddDays(_, _)
AddDays(d, n) ==
    IF d[3] + n <= DaysInMonth(d[1], d[2]) THEN <<d[1], d[2], d[3] + n>>
    ELSE AddDays(NextDay(<<d[1], d[2], DaysInMonth(d[1], d[2])>>), n - (DaysInMonth(d[1], d[2]) - d[3]) - 1)

\* zero-padded decimal of n in w characters
RECURSIVE Pad(_, _)
Pad(n, w) == IF w = 0 THEN <<>> ELSE Pad(n \div 10, w - 1) \o <<DigitChar(n % 10)>>

\* date.isoformat()
isoformat(d) == Pad(d[1], 4) \o <<"-">> \o Pad(d[2], 2) \o <<"-">> \o Pad(d[3], 2)

NoDate == <<0, 0, 0>>

\* _parse_date: strptime(s, "%Y-%m-%d"); NoDate for the None of a failed parse.
\* %Y takes four digits, %m and %d one or two, and the date must exist.
_parse_date(s) ==
    IF s = None \/ Count(s, "-") # 2 THEN NoDate
    ELSE LET p == Split(s, "-")
         IN  IF /\ Len(p[1]) = 4 /\ AllDigits(p[1])
                /\ Len(p[2]) \in {1, 2} /\ AllDigits(p[2])
                /\ Len(p[3]) \in {1, 2} /\ AllDigits(p[3])
                /\ ValidDate(DigitsVal(p[1]), DigitsVal(p[2]), DigitsVal(p[3]))
             THEN <<DigitsVal(p[1]), DigitsVal(p[2]), DigitsVal(p[3])>>
             ELSE NoDate

\* _add_months
_add_months(d, months) ==
    LET y == d[1] + ((d[2] - 1 + months) \div 12)
        m == ((d[2] - 1 + months) % 12) + 1
    IN  <<y, m, Min(d[3], DaysInMonth(y, m))>>

(***************************************************************************)
(* Reservation payloads of the external API (one JSON record each)        *)
(***************************************************************************)
D(y, m, d) == isoformat(<<y, m, d>>)

\* str.lower() on the status / type / frequency values that occur
Lower(s) ==
    CASE s = "Cancelled" -> "cancelled"
      [] s = "On Hold"   -> "on hold"
      [] s = "Weekly"    -> "weekly"
      [] OTHER           -> s

Payload(apt, arr, dep, ad, ch, st) ==
    [apartment_id |-> apt, apartment_name |-> IF apt = 1 THEN "Romantik" ELSE "Seeblick",
     arrival |-> arr, departure |-> dep, adults |-> ad, children |-> ch,
     guestComments |-> IF ad = 2 THEN "late arrival" ELSE "",
     guestName |-> IF ch = 0 THEN "Ann Lee" ELSE "",
     status |-> st, cancelled |-> FALSE, blocked |-> FALSE, isBlockedBooking |-> FALSE,
     isInternal |-> FALSE, type |-> "reservation"]

\* Records the refresh accepts and the reconciler accepts: a stay in apartment 1,
\* the same stay with a later departure, and the stay that follows it.
StayA  == Payload(1, D(2026, 1, 1), D(2026, 1, 5), 2, 0, "confirmed")
StayA2 == Payload(1, D(2026, 1, 1), D(2026, 1, 6), 2, 0, "confirmed")
StayB  == Payload(1, D(2026, 1, 6) \o <<"T", "1", "0">>, D(2026, 1, 10) \o <<"T", "1", "0">>, 1, 1, "")
GoodPayloads == {StayA, StayA2, StayB}

\* Records the refresh accepts although the dates are ill-formed or too old.
StayShort == Payload(1, <<"2", "0", "2", "6", "-", "1", "-", "1">>, <<"2", "0", "2", "6", "-", "1", "-", "9">>, 1, 0, "confirmed")
StayOld   == Payload(1, D(2019, 12, 20), D(2019, 12, 27), 2, 0, "confirmed")
OddPayloads == {StayShort, StayOld}

\* Records the refresh rejects: cancelled, without a departure, departing on the
\* day of arrival.
Cancelled == [StayA EXCEPT !.status = "Cancelled"]
BadPayloads ==
    { Cancelled,
      [StayA EXCEPT !.departure = <<" ", " ">>],
      [StayA EXCEPT !.departure = D(2026, 1, 1)] }

Payloads == GoodPayloads \cup OddPayloads \cup BadPayloads

BookingIds == {101, 102}

\* What the API may report for each reservation.
PayloadsOf(id) ==
    IF id = 101 THEN {StayA, StayA2, StayShort} \cup BadPayloads
    ELSE {StayB, StayOld, Cancelled}

\* The record lists a fetch can return: at most one record per reservation id.
ItemLists ==
    UNION { {f \in [ids -> Payloads] : \A i \in ids : f[i] \in PayloadsOf(i)} : ids \in SUBSET BookingIds }

\* Bound: the largest Task rowid the model lets the table reach.
MaxTaskId == 2

(***************************************************************************)
(* Tables: a table is a function from the primary keys present to rows    *)
(***************************************************************************)
Remove(f, k) == [x \in DOMAIN f \ {k} |-> f[x]]
Put(f, k, v) == [x \in DOMAIN f \cup {k} |-> IF x = k THEN v ELSE f[x]]
Restrict(f, S) == [x \in S |-> f[x]]

MaxOf(S) == CHOOSE x \in S : \A y \in S : y <= x
MinOf(S) == CHOOSE x \in S : \A y \in S : x <= y

\* The elements of a finite set of integers in ascending order (rowid order).
RECURSIVE Ascending(_)
Ascending(S) == IF S = {} THEN <<>> ELSE <<MinOf(S)>> \o Ascending(S \ {MinOf(S)})

\* db.query(Booking).all(): the rows, each with its id, in rowid order
RECURSIVE Rows(_, _)
Rows(B, ids) == IF ids = <<>> THEN <<>> ELSE <<[id |-> Head(ids)] @@ B[Head(ids)]>> \o Rows(B, Tail(ids))
AllRows(B) == Rows(B, Ascending(DOMAIN B))

\* The rowid SQLite gives the k-th row inserted in one flush (INTEGER PRIMARY KEY
\* without AUTOINCREMENT: one more than the largest rowid present).
NewId(T, k) == (IF DOMAIN T = {} THEN 0 ELSE MaxOf(DOMAIN T)) + k

\* Task(...) with the column defaults of the Task model
TaskDefaults ==
    [date |-> <<>>, planned_minutes |-> 90, notes |-> "", apartment_id |-> NULL,
     booking_id |-> NULL, assigned_staff_id |-> NULL, assignment_status |-> NoneStr,
     status |-> "open", assign_notified_at |-> NoneStr, auto_generated |-> TRUE,
     booking_hash |-> None, next_arrival |-> None, next_arrival_adults |-> NULL,
     next_arrival_children |-> NULL, next_arrival_comments |-> NoneStr,
     next_arrival_guest_name |-> NoneStr, series_id |-> NULL, is_recurring |-> FALSE]

(***************************************************************************)
(* Booking Snapshot Normalizer (refresh_bookings_job, per record)         *)
(***************************************************************************)
_best_guest_name(it) == it.guestName

\* jobs.py: "2 Erw., 1 Kind"
_guest_count_label(it) ==
    LET a == IF it.adults > 0 THEN <<ToString(it.adults) \o " Erw.">> ELSE <<>>
        c == IF it.children > 0
             THEN <<ToString(it.children) \o " Kind" \o (IF it.children > 1 THEN "er" ELSE "")>>
             ELSE <<>>
        parts == a \o c
    IN  IF Len(parts) = 0 THEN ""
        ELSE IF Len(parts) = 1 THEN parts[1]
        ELSE parts[1] \o ", " \o parts[2]

\* main.py: "3 Gäste"
main_guest_count_label(it) ==
    IF it.adults + it.children > 0 THEN ToString(it.adults + it.children) \o " Gaeste" ELSE ""

\* The rejection rule of refresh_bookings_job (the same in jobs.py and main.py).
should_skip(it) ==
    LET arrival    == Prefix(it.arrival, 10)
        departure  == Prefix(it.departure, 10)
        is_blocked == it.isBlockedBooking \/ it.blocked
        status     == Lower(it.status)
        cancelled  == status = "cancelled" \/ it.cancelled
        is_draft   == status = "draft"
        is_pending == status = "pending"
        is_on_hold == status = "on hold" \/ status = "on_hold"
    IN  \/ Lower(it.type) = "cancellation"
        \/ cancelled
        \/ is_blocked
        \/ it.isInternal
        \/ is_draft
        \/ is_pending
        \/ is_on_hold
        \/ Blank(departure)
        \/ Blank(arrival)
        \/ StrLeq(departure, arrival)

\* The Booking row refresh_bookings_job of jobs.py writes for an accepted record.
BookingRow(it) ==
    [apartment_id |-> it.apartment_id, apartment_name |-> it.apartment_name,
     arrival |-> Prefix(it.arrival, 10), departure |-> Prefix(it.departure, 10),
     guest_name |-> IF _best_guest_name(it) # "" THEN _best_guest_name(it) ELSE _guest_count_label(it),
     adults |-> it.adults, children |-> it.children, guest_comments |-> it.guestComments]

\* The Booking row refresh_bookings_job of main.py writes for an accepted record.
main_BookingRow(it) ==
    [apartment_id |-> it.apartment_id, apartment_name |-> it.apartment_name,
     arrival |-> Prefix(it.arrival, 10), departure |-> Prefix(it.departure, 10),
     guest_name |-> IF _best_guest_name(it) # "" THEN _best_guest_name(it) ELSE main_guest_count_label(it),
     adults |-> IF it.adults # 0 THEN it.adults ELSE 1, children |-> it.children,
     guest_comments |-> it.guestComments]

(***************************************************************************)
(* Next-Arrival Indexer (sync.py)                                          *)
(***************************************************************************)
\* A sort key that orders nothing: the sort leaves the list in query order.
KeyLeq_any(x, y) == TRUE

\* key(x) <= key(y) for the sort key (arrival, departure)
KeyLeq(x, y) == StrLess(x.arrival, y.arrival) \/ (x.arrival = y.arrival /\ StrLeq(x.departure, y.departure))

\* list.sort(key=...) is stable: x goes behind every element whose key is <= its own.
RECURSIVE InsertSorted(_, _)
InsertSorted(arr, x) ==
    IF arr # <<>> /\ KeyLeq(Head(arr), x) THEN <<Head(arr)>> \o InsertSorted(Tail(arr), x)
    ELSE <<x>> \o arr

RECURSIVE SortByStay(_)
SortByStay(arr) == IF arr = <<>> THEN <<>> ELSE InsertSorted(SortByStay(SubSeq(arr, 1, Len(arr) - 1)), arr[Len(arr)])


NoNext == <<None, NULL, NULL, NoneStr, NoneStr>>

\* _index_next_arrivals: booking id -> (arrival, adults, children, comments, guest) of
\* the first booking, in (arrival, departure) order, of the same apartment that
\* arrives on or after the departure.
_index_next_arrivals(clean) ==
    [id \in {clean[i].id : i \in 1..Len(clean)} |->
        LET b    == clean[CHOOSE i \in 1..Len(clean) : clean[i].id = id]
            arr  == SortByStay(SelectSeq(clean, LAMBDA x : x.apartment_id = b.apartment_id))
            hits == SelectSeq(arr, LAMBDA nb : StrLeq(b.departure, nb.arrival) /\ nb.id # b.id)
        IN  IF hits # <<>>
            THEN <<hits[1].arrival, hits[1].adults, hits[1].children, hits[1].guest_comments, hits[1].guest_name>>
            ELSE NoNext]

(***************************************************************************)
(* Task Reconciler (sync.py)                                               *)
(***************************************************************************)
\* compute_booking_hash: the digest is modelled by the payload it is taken of.
compute_booking_hash(b) ==
    <<b.apartment_id, b.arrival, b.departure, b.adults, b.children, b.guest_comments>>

\* get_planned_minutes_for(apartment_id, default=90)
get_planned_minutes_for(A, apartment_id) ==
    IF Truthy(apartment_id) /\ apartment_id \in DOMAIN A /\ A[apartment_id].planned_minutes # 0
    THEN A[apartment_id].planned_minutes
    ELSE 90

MinSaneDate == D(2020, 1, 1)

\* The acceptance rule of upsert_tasks_from_bookings (the "clean" filter).
Accepted(b) ==
    /\ ~Blank(b.departure)
    /\ ~BadFormat(b.departure)
    /\ ~Blank(b.arrival)
    /\ ~StrLeq(b.departure, b.arrival)
    /\ ~StrLess(b.departure, MinSaneDate)

\* "(x or '')[:n] if x else None" for the opaque texts
TextOrNone(x) == IF x = NoneStr \/ x = "" THEN NoneStr ELSE x

\* The fields the reconciler derives from booking b and the next-arrival index.
DerivedFields(b, nxt) ==
    [date |-> b.departure, apartment_id |-> b.apartment_id,
     booking_hash |-> compute_booking_hash(b), auto_generated |-> TRUE,
     next_arrival |-> nxt[1], next_arrival_adults |-> nxt[2], next_arrival_children |-> nxt[3],
     next_arrival_comments |-> TextOrNone(nxt[4]), next_arrival_guest_name |-> TextOrNone(nxt[5])]

\* An update branch that reopens the Task.
UpdateTask_reopen(t, b, nxt) == [DerivedFields(b, nxt) @@ t EXCEPT !.status = "open"]

\* An update branch that keeps the next-arrival fields the Task had.
UpdateTask_stale(t, b, nxt) ==
    [f \in {"date", "apartment_id", "booking_hash", "auto_generated"} |-> DerivedFields(b, nxt)[f]] @@ t

\* The update branch: the derived fields are assigned, every other field is kept.
UpdateTask(t, b, nxt) == DerivedFields(b, nxt) @@ t

\* An insert branch that also files the Task under series 1.
NewBookingTask_in_series(A, b, nxt) ==
    DerivedFields(b, nxt) @@
    [booking_id |-> b.id, series_id |-> 1, planned_minutes |-> get_planned_minutes_for(A, b.apartment_id),
     status |-> "open"] @@ TaskDefaults

\* The insert branch.
NewBookingTask(A, b, nxt) ==
    DerivedFields(b, nxt) @@
    [booking_id |-> b.id, planned_minutes |-> get_planned_minutes_for(A, b.apartment_id),
     status |-> "open"] @@ TaskDefaults

\* First cleanup loop: rows without a usable date, and rows whose cached booking
\* has no usable departure.
CleanupInvalid(t, B) ==
    \/ Blank(t.date)
    \/ BadFormat(t.date)
    \/ StrLess(t.date, MinSaneDate)
    \/ /\ Truthy(t.booking_id)
       /\ t.booking_id \in DOMAIN B
       /\ (Blank(B[t.booking_id].departure) \/ BadFormat(B[t.booking_id].departure))

\* A second cleanup loop whose lookups of the booking all miss.
CleanupStale_lost(t, B, current_ids) == t.auto_generated /\ Truthy(t.booking_id)

\* Second cleanup loop: auto-generated rows whose booking left the current set.
CleanupStale(t, B, current_ids) ==
    /\ t.auto_generated
    /\ Truthy(t.booking_id)
    /\ \/ t.booking_id \notin current_ids
       \/ t.booking_id \notin DOMAIN B
       \/ Blank(B[t.booking_id].departure)
       \/ Blank(B[t.booking_id].arrival)
       \/ BadFormat(B[t.booking_id].departure)
       \/ StrLeq(B[t.booking_id].departure, B[t.booking_id].arrival)

\* A lookup that finds no Task for any booking.
existing_by_booking_none(T, booking_ids) == <<>>

\* existing_by_booking: the Task of each booking of booking_ids that has one (a dict
\* comprehension over the query result: the last row of a booking wins).
existing_by_booking(T, booking_ids) ==
    LET existing == {id \in DOMAIN T : T[id].booking_id \in booking_ids}
    IN  [bid \in {T[id].booking_id : id \in existing} |->
            MaxOf({id \in existing : T[id].booking_id = bid})]

\* upsert_tasks_from_bookings(bookings), run against Task table T, Booking table B
\* and Apartment table A; the value is the Task table after the commit.
\* The session does not autoflush, so the queries of the cleanup loops see the
\* rows of T (with the assignments made to them) and not the rows just added.
upsert_tasks_from_bookings(passed, T, B, A) ==
    IF passed = <<>> THEN T
    ELSE
    LET clean       == SelectSeq(passed, Accepted)
        booking_ids == {clean[i].id : i \in 1..Len(clean)}
        next_map    == _index_next_arrivals(clean)
        by_booking  == existing_by_booking(T, booking_ids)
        bookingOf(bid) == clean[CHOOSE i \in 1..Len(clean) : clean[i].id = bid]
        updated     == [id \in DOMAIN T |->
                          IF \E bid \in DOMAIN by_booking : by_booking[bid] = id
                          THEN UpdateTask(T[id], bookingOf(T[id].booking_id), next_map[T[id].booking_id])
                          ELSE T[id]]
        added       == SelectSeq(clean, LAMBDA b : b.id \notin DOMAIN by_booking)
        current_ids == booking_ids
        deleted     == {id \in DOMAIN T :
                          CleanupInvalid(updated[id], B) \/ CleanupStale(updated[id], B, current_ids)}
    IN  [id \in (DOMAIN T \ deleted) \cup {NewId(T, k) : k \in 1..Len(added)} |->
            IF id \in DOMAIN T THEN updated[id]
            ELSE NewBookingTask(A, added[id - NewId(T, 0)], next_map[added[id - NewId(T, 0)].id])]

(***************************************************************************)
(* refresh_bookings_job: jobs.py (the admin import route of routers/admin) *)
(* and main.py (the scheduler's tick and the import route of main.py)      *)
(***************************************************************************)
\* A rejection that leaves the Tasks of the booking alone.
DeleteTasksOfBooking_none(T, b_id) == T

DeleteTasksOfBooking(T, b_id) == Restrict(T, {id \in DOMAIN T : T[id].booking_id # b_id})

\* The loop over the fetched records, jobs.py: a rejected record deletes its Booking
\* row and its Tasks, an accepted one is upserted into the Booking table.
RECURSIVE process_items(_, _, _, _)
process_items(ids, items, B, T) ==
    IF ids = <<>> THEN [B |-> B, T |-> T]
    ELSE LET b_id == Head(ids)
             it   == items[b_id]
         IN  IF should_skip(it)
             THEN process_items(Tail(ids), items, Remove(B, b_id), DeleteTasksOfBooking(T, b_id))
             ELSE process_items(Tail(ids), items, Put(B, b_id, BookingRow(it)), T)

\* The same loop in main.py: an accepted record also registers its apartment.
RECURSIVE main_process_items(_, _, _, _, _)
main_process_items(ids, items, B, T, A) ==
    IF ids = <<>> THEN [B |-> B, T |-> T, A |-> A]
    ELSE LET b_id == Head(ids)
             it   == items[b_id]
             apt  == it.apartment_id
             A1   == IF apt = NULL THEN A
                     ELSE IF apt \notin DOMAIN A
                          THEN Put(A, apt, [name |-> it.apartment_name, planned_minutes |-> 90])
                          ELSE [A EXCEPT ![apt].name = IF it.apartment_name # "" THEN it.apartment_name ELSE @]
         IN  IF should_skip(it)
             THEN main_process_items(Tail(ids), items, Remove(B, b_id), DeleteTasksOfBooking(T, b_id), A)
             ELSE main_process_items(Tail(ids), items, Put(B, b_id, main_BookingRow(it)), T, A1)

\* The closing loop of both variants: Tasks with an empty date are removed.
DeleteBlankDates(T) == Restrict(T, {id \in DOMAIN T : ~Blank(T[id].date)})

\* Booking ids that have a Task
TaskedBookings(T) == {T[id].booking_id : id \in DOMAIN T} \ {NULL}

\* What the last operation was (history only; no operation reads it).  For a
\* refresh pass: the cached bookings whose record was rejected, the cached bookings
\* the fetch did not return, and the bookings that had a Task before the pass.
\* invalid: the fetched records without a departure, departing on or before the
\* arrival, or departing before the minimum sane date.  failed: the fetch failed.
Op(name) ==
    [name |-> name, rejected |-> {}, absent |-> {}, tasked_before |-> {}, invalid |-> {}, failed |-> FALSE]

\* What the request to the reservation API ends in when it fails (network error,
\* timeout, status other than 2xx): an exception inside get_reservations.
FetchError == 0 :> "Smoobu API error"

\* SmoobuClient.get_reservations: the records of the response; an exception is
\* caught and logged and the empty list is returned.
get_reservations(outcome) == IF 0 \in DOMAIN outcome THEN <<>> ELSE outcome

RefreshOp(name, outcome) ==
    [name |-> name,
     rejected |-> {i \in DOMAIN get_reservations(outcome) \cap DOMAIN bookings : should_skip(outcome[i])},
     absent |-> DOMAIN bookings \ DOMAIN get_reservations(outcome),
     tasked_before |-> TaskedBookings(tasks),
     invalid |-> {i \in DOMAIN get_reservations(outcome) :
                     \/ Blank(Prefix(outcome[i].departure, 10))
                     \/ StrLeq(Prefix(outcome[i].departure, 10), Prefix(outcome[i].arrival, 10))
                     \/ StrLess(Prefix(outcome[i].departure, 10), MinSaneDate)},
     failed |-> 0 \in DOMAIN outcome]

\* The rows a pass adds stay within the bound on the Task rowids
IdsFit(T) == \A id \in DOMAIN T \ DOMAIN tasks : id <= MaxTaskId

\* The job of jobs.py, for the outcome of its request to the reservation API
refresh_bookings_job(outcome) ==
    LET items == get_reservations(outcome)
        r     == process_items(Ascending(DOMAIN items), items, bookings, tasks)
        final == DeleteBlankDates(upsert_tasks_from_bookings(AllRows(r.B), r.T, r.B, apartments))
    IN  /\ IdsFit(final)
        /\ bookings' = r.B
        /\ tasks' = final
        /\ lastOp' = RefreshOp("refresh_bookings_job", outcome)
        /\ UNCHANGED <<apartments, series, today, loop, timelogs>>

\* The job of main.py, for the outcome of its request to the reservation API
main_refresh_bookings_job(outcome) ==
    LET items == get_reservations(outcome)
        r     == main_process_items(Ascending(DOMAIN items), items, bookings, tasks, apartments)
        seen_booking_ids == {i \in DOMAIN items : ~should_skip(items[i])}
        \* bookings that the fetch did not return are deleted from the cache
        B2    == Restrict(r.B, DOMAIN r.B \cap seen_booking_ids)
        final == DeleteBlankDates(upsert_tasks_from_bookings(AllRows(B2), r.T, B2, r.A))
    IN  /\ IdsFit(final)
        /\ bookings' = B2
        /\ tasks' = final
        /\ apartments' = r.A
        /\ lastOp' = RefreshOp("main_refresh_bookings_job", outcome)
        /\ UNCHANGED <<series, today, loop, timelogs>>

\* The job of jobs.py when the storage fails during the pass: at the first statement
\* of the session ("begin"), at the commit of upsert_tasks_from_bookings ("upsert")
\* or at the closing commit ("final").  No handler rolls anything back: what was
\* committed before the failure stays, the changes pending in the failing session
\* are lost.
refresh_bookings_job_storage_failure(outcome, at) ==
    LET items == get_reservations(outcome)
        r     == process_items(Ascending(DOMAIN items), items, bookings, tasks)
    IN  /\ bookings' = IF at = "begin" THEN bookings ELSE r.B
        /\ tasks' = IF at = "begin" THEN tasks
                    ELSE IF at = "upsert" THEN r.T
                    ELSE upsert_tasks_from_bookings(AllRows(r.B), r.T, r.B, apartments)
        /\ IdsFit(tasks')
        /\ lastOp' = Op("refresh_bookings_job: storage failure")
        /\ UNCHANGED <<apartments, series, today, loop, timelogs>>

(***************************************************************************)
(* Staff and notification                                                  *)
(***************************************************************************)
StaffIds == {1}
StaffEmail(sid) == IF sid = 1 THEN "cleaner@example.org" ELSE ""

Now == "2026-01-01 08:00:00"

\* send_assignment_emails_job: the pending, not yet notified Tasks of every staff
\* member with an e-mail address are stamped as notified.
send_assignment_emails_job(T) ==
    [id \in DOMAIN T |->
        IF /\ T[id].assignment_status = "pending"
           /\ T[id].assigned_staff_id # NULL
           /\ T[id].assign_notified_at = NoneStr
           /\ Truthy(T[id].assigned_staff_id)
           /\ T[id].assigned_staff_id \in StaffIds
           /\ StaffEmail(T[id].assigned_staff_id) # ""
        THEN [T[id] EXCEPT !.assign_notified_at = Now]
        ELSE T[id]]

(***************************************************************************)
(* Operator actions on single Tasks (routers/admin.py)                    *)
(***************************************************************************)
\* Dates an operator types into the task form.
ManualDates == { D(2026, 1, 6), D(2019, 12, 31), <<"6", ".", "1", ".", "2", "0", "2", "6">> }

\* Task(...) without "auto_generated=False": the column default applies
new_task_column_default(date, planned_minutes, description, staff_id_val) ==
    [date |-> Prefix(date, 10), apartment_id |-> NULL,
     planned_minutes |-> planned_minutes,
     notes |-> IF description # "" THEN description ELSE NoneStr,
     assigned_staff_id |-> staff_id_val,
     assignment_status |-> IF Truthy(staff_id_val) THEN "pending" ELSE NoneStr,
     status |-> "open"] @@ TaskDefaults

\* Task(...) of admin_task_create
new_task(date, planned_minutes, description, staff_id_val) ==
    [date |-> Prefix(date, 10), apartment_id |-> NULL,
     planned_minutes |-> planned_minutes,
     notes |-> IF description # "" THEN description ELSE NoneStr,
     assigned_staff_id |-> staff_id_val,
     assignment_status |-> IF Truthy(staff_id_val) THEN "pending" ELSE NoneStr,
     status |-> "open", auto_generated |-> FALSE] @@ TaskDefaults

admin_task_create(date, planned_minutes, description, staff_id) ==
    LET staff_id_val == IF staff_id \in StaffIds THEN staff_id ELSE NULL
        T1 == Put(tasks, NewId(tasks, 1), new_task(date, planned_minutes, description, staff_id_val))
    IN  /\ ~Blank(date)
        /\ IdsFit(T1)
        /\ tasks' = IF Truthy(staff_id_val) THEN send_assignment_emails_job(T1) ELSE T1
        /\ lastOp' = Op("other")
        /\ UNCHANGED <<bookings, apartments, series, today, loop, timelogs>>

admin_task_assign(task_id, staff_id) ==
    LET t  == tasks[task_id]
        t1 == IF Truthy(staff_id)
              THEN [t EXCEPT !.assigned_staff_id = staff_id, !.assignment_status = "pending",
                             !.assign_notified_at = NoneStr]
              ELSE [t EXCEPT !.assigned_staff_id = staff_id, !.assignment_status = NoneStr]
        T1 == [tasks EXCEPT ![task_id] = t1]
    IN  /\ task_id \in DOMAIN tasks
        /\ tasks' = IF Truthy(staff_id) /\ staff_id # t.assigned_staff_id
                    THEN send_assignment_emails_job(T1) ELSE T1
        /\ lastOp' = Op("other")
        /\ UNCHANGED <<bookings, apartments, series, today, loop, timelogs>>

\* A TimeLog row.  started_at, ended_at and actual_minutes hold readings of the wall
\* clock; of these the model keeps whether ended_at is NULL (NoneStr) or a time
\* stamp ("now").
TimeLog(task_id, staff_id) == [task_id |-> task_id, staff_id |-> staff_id, ended_at |-> NoneStr]

\* query(TimeLog).filter(...).order_by(TimeLog.id.desc()).first() over the ids: the
\* ids of the newest row, or none
newest(ids) == IF ids = {} THEN {} ELSE {MaxOf(ids)}

\* The rows stay as they are
close_logs_skipped(L, ids) == L

\* "tl.ended_at = now_iso()" for the rows ids
close_logs(L, ids) == [l \in DOMAIN L |-> IF l \in ids THEN [L[l] EXCEPT !.ended_at = "now"] ELSE L[l]]

logs_of_task(L, task_id) == {l \in DOMAIN L : L[l].task_id = task_id}

open_logs(L, task_id, staff_id) ==
    {l \in DOMAIN L : L[l].task_id = task_id /\ L[l].staff_id = staff_id /\ L[l].ended_at = NoneStr}

admin_task_status(task_id, status) ==
    /\ status \in {"open", "paused", "done"}
    /\ task_id \in DOMAIN tasks
    /\ timelogs' = close_logs(timelogs, newest({l \in logs_of_task(timelogs, task_id) : timelogs[l].ended_at = NoneStr}))
    /\ tasks' = [tasks EXCEPT ![task_id].status = status]
    /\ lastOp' = Op("other")
    /\ UNCHANGED <<bookings, apartments, series, today, loop>>

admin_task_delete(task_id) ==
    /\ task_id \in DOMAIN tasks
    /\ ~tasks[task_id].auto_generated
    /\ timelogs' = Restrict(timelogs, DOMAIN timelogs \ logs_of_task(timelogs, task_id))
    /\ tasks' = Remove(tasks, task_id)
    /\ lastOp' = Op("other")
    /\ UNCHANGED <<bookings, apartments, series, today, loop>>

admin_apartments_update(apartment_id, planned_minutes) ==
    /\ apartment_id \in DOMAIN apartments
    /\ apartments' = [apartments EXCEPT ![apartment_id].planned_minutes = planned_minutes]
    /\ lastOp' = Op("other")
    /\ UNCHANGED <<bookings, tasks, series, today, loop, timelogs>>

\* The apartment's duration is written to its Tasks dated today or later.
admin_apartments_apply(apartment_id) ==
    /\ apartment_id \in DOMAIN apartments
    /\ tasks' = [id \in DOMAIN tasks |->
                   IF tasks[id].apartment_id = apartment_id /\ StrLeq(isoformat(today), tasks[id].date)
                   THEN [tasks[id] EXCEPT
                           !.planned_minutes = apartments[apartment_id].planned_minutes,
                           !.assign_notified_at =
                               IF Truthy(tasks[id].assigned_staff_id) /\ tasks[id].assignment_status # "rejected"
                               THEN NoneStr ELSE @]
                   ELSE tasks[id]]
    /\ lastOp' = Op("other")
    /\ UNCHANGED <<bookings, apartments, series, today, loop, timelogs>>

(***************************************************************************)
(* Recurring series (jobs.py, routers/admin.py; table task_series of db.py)*)
(***************************************************************************)
\* str.lower() on the letters of a weekday list
LowerChar(c) ==
    CASE c = "M" -> "m"
      [] c = "T" -> "t"
      [] OTHER   -> c
LowerStr(s) == [i \in 1..Len(s) |-> LowerChar(s[i])]

\* wd_map.get(p.strip().lower()[:2]); NULL for the None of an unknown name
wd_map(p) ==
    LET k == Prefix(LowerStr(Strip(p)), 2)
    IN  CASE k = <<"m", "o">> -> 0
          [] k = <<"t", "u">> -> 1
          [] k = <<"w", "e">> -> 2
          [] k = <<"t", "h">> -> 3
          [] k = <<"f", "r">> -> 4
          [] k = <<"s", "a">> -> 5
          [] k = <<"s", "u">> -> 6
          [] OTHER            -> NULL

\* A weekday list that is never read: the series falls on the start date's weekday.
weekly_wds_start(ser, s0) == {Weekday(s0)}

\* The weekdays a weekly series falls on
weekly_wds(ser, s0) ==
    IF ser.byweekday # <<>>
    THEN LET parts == Split(ser.byweekday, ",")
             wds   == {wd_map(parts[i]) : i \in 1..Len(parts)} \ {NULL}
         IN  IF wds = {} THEN {Weekday(s0)} ELSE wds
    ELSE {Weekday(s0)}

\* The days of the month a monthly series falls on, in the order written
monthly_mdays(ser, s0) ==
    IF ser.bymonthday # <<>>
    THEN LET parts == Split(ser.bymonthday, ",")
             ok(p) == AllDigits(Strip(p)) /\ DigitsVal(Strip(p)) \in 1..31
             mdays == [i \in 1..Len(SelectSeq(parts, ok)) |-> DigitsVal(Strip(SelectSeq(parts, ok)[i]))]
         IN  IF mdays = <<>> THEN <<s0[3]>> ELSE mdays
    ELSE <<s0[3]>>

\* The loop of the weekly branch from day d on
RECURSIVE weekly_loop(_, _, _, _, _, _, _)
weekly_loop(d, out, s0, wds, interval, count, hard_until) ==
    IF DateLess(hard_until, d) THEN out
    ELSE LET start_week_monday == ToOrdinal(s0) - Weekday(s0)
             windex == (ToOrdinal(d) - start_week_monday) \div 7
         IN  IF windex % interval = 0 /\ Weekday(d) \in wds /\ DateLeq(s0, d)
             THEN IF Truthy(count) /\ Len(out) + 1 >= count
                  THEN Append(out, d)
                  ELSE weekly_loop(NextDay(d), Append(out, d), s0, wds, interval, count, hard_until)
             ELSE weekly_loop(NextDay(d), out, s0, wds, interval, count, hard_until)

\* "while cur < start_from: cur = _add_months(cur, interval)"
RECURSIVE monthly_seek(_, _, _)
monthly_seek(cur, start_from, interval) ==
    IF DateLess(cur, start_from) THEN monthly_seek(_add_months(cur, interval), start_from, interval) ELSE cur

\* The loops of the monthly branch: month cur, from the k-th day of mdays on.
\* The value is <<out, done>>, done when the count stopped the expansion.
RECURSIVE monthly_loop(_, _, _, _, _, _, _, _, _)
monthly_loop(cur, k, out, s0, mdays, interval, count, start_from, hard_until) ==
    IF DateLess(hard_until, cur) THEN out
    ELSE IF k > Len(mdays)
    THEN monthly_loop(_add_months(cur, interval), 1, out, s0, mdays, interval, count, start_from, hard_until)
    ELSE LET d == <<cur[1], cur[2], Min(mdays[k], DaysInMonth(cur[1], cur[2]))>>
         IN  IF DateLess(d, s0) \/ DateLess(d, start_from) \/ DateLess(hard_until, d)
             THEN monthly_loop(cur, k + 1, out, s0, mdays, interval, count, start_from, hard_until)
             ELSE IF Truthy(count) /\ Len(out) + 1 >= count
                  THEN Append(out, d)
                  ELSE monthly_loop(cur, k + 1, Append(out, d), s0, mdays, interval, count, start_from, hard_until)

\* The result of a call that ends with the ValueError of _date(...)
ValueError == <<NoDate>>

\* "_date(cur.year + interval, cur.month, cur.day)"; NoDate when _date raises
\* ValueError (29 February of a year that is not a leap year)
yearly_next(cur, interval) ==
    IF ValidDate(cur[1] + interval, cur[2], cur[3]) THEN <<cur[1] + interval, cur[2], cur[3]>> ELSE NoDate

\* "while cur < start_from: cur = _date(cur.year + interval, cur.month, cur.day)"
RECURSIVE yearly_seek(_, _, _)
yearly_seek(cur, start_from, interval) ==
    IF cur = NoDate THEN NoDate
    ELSE IF DateLess(cur, start_from) THEN yearly_seek(yearly_next(cur, interval), start_from, interval)
    ELSE cur

\* "while cur <= hard_until: ...; cur = _date(cur.year + interval, cur.month, cur.day)"
RECURSIVE yearly_loop(_, _, _, _, _, _, _)
yearly_loop(cur, out, s0, interval, count, start_from, hard_until) ==
    IF cur = NoDate THEN ValueError
    ELSE IF DateLess(hard_until, cur) THEN out
    ELSE IF DateLeq(s0, cur) /\ DateLeq(start_from, cur)
         THEN IF Truthy(count) /\ Len(out) + 1 >= count
              THEN Append(out, cur)
              ELSE yearly_loop(yearly_next(cur, interval), Append(out, cur), s0, interval, count, start_from, hard_until)
         ELSE yearly_loop(yearly_next(cur, interval), out, s0, interval, count, start_from, hard_until)

\* An expansion that does not look at the end date of the series
hard_until_of_until(until, end_limit) == until

\* "hard_until = min(until, end_limit) if end_limit else until"
hard_until_of(until, end_limit) == IF end_limit # NoDate THEN DateMin(until, end_limit) ELSE until

\* An expansion that returns the start date whatever the window asked for
occurrences_of_start(ser, s0, freq, interval, start_from, hard_until) ==
    IF ~ser.active \/ s0 = NoDate THEN <<>> ELSE <<s0>>

\* The branches of _expand_series_occurrences for start date s0 and frequency freq
occurrences_of(ser, s0, freq, interval, start_from, hard_until) ==
    IF ~ser.active THEN <<>>
    ELSE IF s0 = NoDate THEN <<>>
    ELSE IF DateLess(hard_until, start_from) THEN <<>>
    ELSE IF freq = "weekly"
    THEN weekly_loop(DateMax(start_from, s0), <<>>, s0, weekly_wds(ser, s0), interval, ser.count, hard_until)
    ELSE IF freq = "monthly"
    THEN monthly_loop(monthly_seek(s0, start_from, interval), 1, <<>>, s0, monthly_mdays(ser, s0),
                      interval, ser.count, start_from, hard_until)
    ELSE IF freq = "yearly"
    THEN yearly_loop(yearly_seek(s0, start_from, interval), <<>>, s0, interval, ser.count, start_from, hard_until)
    ELSE IF DateLeq(start_from, s0) /\ DateLeq(s0, hard_until) THEN <<s0>> ELSE <<>>

\* _expand_series_occurrences(series, start_from, until): the dates to generate
_expand_series_occurrences(ser, start_from, until) ==
    occurrences_of(ser, _parse_date(ser.start_date), Lower(ser.frequency),
                   Max(1, IF Truthy(ser.interval) THEN ser.interval ELSE 1), start_from,
                   hard_until_of(until, IF ser.end_date # None /\ ser.end_date # <<>>
                                        THEN _parse_date(ser.end_date) ELSE NoDate))

\* Task(...) of expand_series_job for occurrence d of series ser (id sid)
SeriesTask(ser, sid, d) ==
    [date |-> isoformat(d), apartment_id |-> ser.apartment_id,
     planned_minutes |-> IF ser.planned_minutes # 0 THEN ser.planned_minutes ELSE 60,
     notes |-> IF ser.description # "" THEN ser.description ELSE NoneStr,
     assigned_staff_id |-> ser.staff_id,
     assignment_status |-> IF Truthy(ser.staff_id) THEN "pending" ELSE NoneStr,
     status |-> "open", auto_generated |-> FALSE, series_id |-> sid, is_recurring |-> TRUE] @@ TaskDefaults

\* "_parse_date(ser.start_date) or _date.today()"
date_or(d, day) == IF d # NoDate THEN d ELSE day

\* start_from of expand_series_job: the day after the latest Task of the series
\* (order_by(Task.date.desc()).first()), else the start date, else today.
series_start_from(T, ser, sid, day) ==
    LET mine == {id \in DOMAIN T : T[id].series_id = sid}
        last == CHOOSE id \in mine : \A o \in mine : StrLeq(T[o].date, T[id].date)
    IN  IF mine # {} THEN NextDay(_parse_date(T[last].date))
        ELSE date_or(_parse_date(ser.start_date), day)

\* The dates expand_series_job creates Tasks for, for series sid: the occurrences
\* for which the query finds no Task.  The session does not autoflush, so the query
\* sees the rows of T and not the Tasks added earlier in the same call.
series_new_dates(T, S, sid, day, days_ahead) ==
    SelectSeq(_expand_series_occurrences(S[sid], series_start_from(T, S[sid], sid, day), AddDays(day, days_ahead)),
              LAMBDA d : ~\E id \in DOMAIN T : T[id].series_id = sid /\ T[id].date = isoformat(d))

\* The Tasks of series sid for the dates
series_tasks_for(ser, sid, dates) == [i \in 1..Len(dates) |-> SeriesTask(ser, sid, dates[i])]

\* The Tasks added for the series sids (in rowid order), appended to the sequence acc
RECURSIVE series_new_tasks(_, _, _, _, _, _)
series_new_tasks(T, S, sids, day, days_ahead, acc) ==
    IF sids = <<>> THEN acc
    ELSE series_new_tasks(T, S, Tail(sids), day, days_ahead,
                          acc \o series_tasks_for(S[Head(sids)], Head(sids),
                                                  series_new_dates(T, S, Head(sids), day, days_ahead)))

\* The commit of expand_series_job and the notification that follows a creation
commit_new_tasks(T, new_tasks) ==
    LET T1 == [id \in DOMAIN T \cup {NewId(T, k) : k \in 1..Len(new_tasks)} |->
                  IF id \in DOMAIN T THEN T[id] ELSE new_tasks[id - NewId(T, 0)]]
    IN  IF Len(new_tasks) > 0 THEN send_assignment_emails_job(T1) ELSE T1

\* expand_series_job ends with the ValueError of an expansion: the exception leaves
\* the "with SessionLocal()" block before db.commit(), and no Task is stored.
expand_series_job_raises(T, S, day, days_ahead) ==
    \E sid \in DOMAIN S :
        /\ S[sid].active
        /\ _expand_series_occurrences(S[sid], series_start_from(T, S[sid], sid, day), AddDays(day, days_ahead)) = ValueError

\* expand_series_job(days_ahead) on Task table T and series table S; the value is
\* the Task table after the job.
expand_series_job(T, S, day, days_ahead) ==
    IF expand_series_job_raises(T, S, day, days_ahead) THEN T
    ELSE commit_new_tasks(T, series_new_tasks(T, S, Ascending({sid \in DOMAIN S : S[sid].active}), day, days_ahead, <<>>))

\* Recurrence rules an operator enters in the series form.
SeriesForm(freq, start, wd, md, cnt, sid) ==
    [title |-> "Pool", description |-> "", apartment_id |-> NULL, staff_id |-> sid,
     planned_minutes |-> 45, start_date |-> start, frequency |-> freq, interval |-> 1,
     byweekday |-> wd, bymonthday |-> md, end_date |-> <<>>, count |-> cnt]

SeriesForms ==
    { SeriesForm("Weekly", D(2026, 1, 1), <<>>, <<>>, NULL, NULL),
      SeriesForm("weekly", D(2026, 1, 1), <<>>, <<>>, 1, 1),
      SeriesForm("weekly", D(2026, 1, 5), <<"M", "o", ",", " ", "t", "h">>, <<>>, 2, NULL),
      SeriesForm("monthly", D(2026, 2, 1), <<>>, <<"3", "0", ",", "3", "1">>, NULL, NULL),
      SeriesForm("monthly", D(2026, 1, 31), <<>>, <<>>, 2, NULL),
      SeriesForm("yearly", D(2026, 1, 10), <<>>, <<>>, NULL, 1),
      SeriesForm("once", D(2026, 1, 20), <<>>, <<>>, NULL, NULL) }

\* Bounds: the largest TaskSeries id and the largest Task rowid of the series runs,
\* and the number of days the clock advances.
MaxSeriesId == 2
MaxSeriesTaskId == 6
MaxClockDays == 1

SeriesIdsFit(T) == \A id \in DOMAIN T : id <= MaxSeriesTaskId

\* The id of a new TaskSeries row (AUTOINCREMENT: ids are not reused)
NewSeriesId(S) == (IF DOMAIN S = {} THEN 0 ELSE MaxOf(DOMAIN S)) + 1

admin_series_add(form) ==
    LET sid == NewSeriesId(series)
        row == [start_date |-> Prefix(form.start_date, 10),
                interval |-> Max(1, IF Truthy(form.interval) THEN form.interval ELSE 1),
                byweekday |-> Strip(form.byweekday), bymonthday |-> Strip(form.bymonthday),
                end_date |-> IF form.end_date # <<>> THEN Prefix(form.end_date, 10) ELSE None,
                active |-> TRUE] @@ form
    IN  /\ sid <= MaxSeriesId
        /\ series' = Put(series, sid, row)
        /\ tasks' = IF expand_series_job_raises(tasks, series', today, 30) THEN tasks
                    ELSE send_assignment_emails_job(expand_series_job(tasks, series', today, 30))
        /\ SeriesIdsFit(tasks')
        /\ lastOp' = Op("admin_series_add")
        /\ UNCHANGED <<bookings, apartments, today, loop, timelogs>>

admin_series_expand(days) ==
    /\ tasks' = expand_series_job(tasks, series, today, days)
    /\ SeriesIdsFit(tasks')
    /\ lastOp' = Op("admin_series_expand")
    /\ UNCHANGED <<bookings, apartments, series, today, loop, timelogs>>

admin_series_toggle(series_id) ==
    /\ series_id \in DOMAIN series
    /\ series' = [series EXCEPT ![series_id].active = ~@]
    /\ lastOp' = Op("other")
    /\ UNCHANGED <<bookings, tasks, apartments, today, loop, timelogs>>

\* A day passes.
Tick ==
    /\ ToOrdinal(today) - ToOrdinal(<<2026, 1, 1>>) < MaxClockDays
    /\ today' = NextDay(today)
    /\ lastOp' = Op("other")
    /\ UNCHANGED <<bookings, tasks, apartments, series, loop, timelogs>>

(***************************************************************************)
(* The system                                                              *)
(***************************************************************************)
Today0 == <<2026, 1, 1>>

Init ==
    /\ bookings = <<>>
    /\ tasks = <<>>
    /\ apartments = <<>>
    /\ series = <<>>
    /\ today = Today0
    /\ lastOp = Op("init")
    /\ loop = [queue |-> <<>>, run |-> <<>>]
    /\ timelogs = <<>>

Next ==
    \/ \E items \in ItemLists : refresh_bookings_job(items)
    \/ \E items \in ItemLists : main_refresh_bookings_job(items)
    \/ refresh_bookings_job(FetchError)
    \/ main_refresh_bookings_job(FetchError)
    \/ \E d \in ManualDates : admin_task_create(d, 90, "", NULL)
    \/ \E id \in 1..MaxTaskId : admin_task_delete(id)

Spec == Init /\ [][Next]_vars

\* Human edits of booking Tasks between refresh passes.
EditLists == {f \in ItemLists : \A i \in DOMAIN f : f[i] \in {StayA, StayA2, StayB}}

NextEdit ==
    \/ \E items \in EditLists : main_refresh_bookings_job(items)
    \/ \E id \in 1..MaxTaskId, sid \in {NULL} \cup StaffIds : admin_task_assign(id, sid)
    \/ \E id \in 1..MaxTaskId, st \in {"open", "done"} : admin_task_status(id, st)
    \/ admin_apartments_update(1, 120)
    \/ admin_apartments_apply(1)

SpecEdit == Init /\ [][NextEdit]_vars

\* Series and their expansion.
NextSeries ==
    \/ \E form \in SeriesForms : admin_series_add(form)
    \/ \E days \in {30, 60} : admin_series_expand(days)
    \/ \E sid \in 1..MaxSeriesId : admin_series_toggle(sid)
    \/ Tick

SpecSeries == Init /\ [][NextSeries]_vars

\* Reconcile passes, expansion passes and manual operations on one Task table.
MixedForms == {form \in SeriesForms : form.count = 1 \/ form.frequency = "once"}

\* The fetches of the mixed runs report reservation 101 only
MixedLists == {f \in EditLists : 102 \notin DOMAIN f}

NextMixed ==
    \/ \E items \in MixedLists : refresh_bookings_job(items)
    \/ \E items \in MixedLists : main_refresh_bookings_job(items)
    \/ \E form \in MixedForms : admin_series_add(form) /\ IdsFit(tasks')
    \/ admin_series_expand(30) /\ IdsFit(tasks')
    \/ admin_task_create(D(2026, 1, 6), 90, "", NULL)
    \/ \E id \in 1..MaxTaskId : admin_task_status(id, "done")
    \/ \E id \in 1..MaxTaskId : admin_task_delete(id)

SpecMixed == Init /\ [][NextMixed]_vars

\* Refresh passes of jobs.py, some of which meet a storage failure.
NextStorage ==
    \/ \E items \in {f \in ItemLists : \A i \in DOMAIN f : f[i] \in {StayA, StayA2, StayB, Cancelled}} :
          \/ refresh_bookings_job(items)
          \/ \E at \in {"begin", "upsert", "final"} : refresh_bookings_job_storage_failure(items, at)

SpecStorage == Init /\ [][NextStorage]_vars

\* The next-arrival index on its own: Booking tables of up to three accepted
\* bookings in two apartments, with stays that follow each other, overlap and tie.
IndexStays ==
    { BookingRow(Payload(apt, D(2026, 1, st[1]), D(2026, 1, st[2]), apt, st[1] % 2, "confirmed")) :
        apt \in {1, 2}, st \in {<<1, 5>>, <<5, 10>>, <<3, 8>>, <<10, 12>>} }

IndexTables == UNION { [ids -> IndexStays] : ids \in SUBSET {101, 102, 103} }

InitIndex ==
    /\ bookings \in IndexTables
    /\ tasks = <<>>
    /\ apartments = <<>>
    /\ series = <<>>
    /\ today = Today0
    /\ lastOp = Op("init")
    /\ loop = [queue |-> <<>>, run |-> <<>>]
    /\ timelogs = <<>>

\* upsert_tasks_from_bookings up to "next_map = _index_next_arrivals(clean)"
call_index_next_arrivals ==
    /\ lastOp.name = "init"
    /\ lastOp' = [name |-> "_index_next_arrivals",
                  next_info |-> _index_next_arrivals(SelectSeq(AllRows(bookings), Accepted))]
    /\ UNCHANGED <<bookings, tasks, apartments, series, today, loop, timelogs>>

NextIndex == call_index_next_arrivals

SpecIndex == InitIndex /\ [][NextIndex]_vars

\* The recurrence expansion on its own: one active series without a count, and
\* the windows expand_series_job may ask for.
ExpandRow(freq, start, wd, md, interval, end_date) ==
    [active |-> TRUE] @@
    [SeriesForm(freq, start, wd, md, NULL, NULL) EXCEPT !.interval = interval, !.end_date = end_date]

WeeklyRows ==
    { ExpandRow("weekly", start, wd, <<>>, interval, end_date) :
        start \in {D(2024, 1, 1), D(2024, 1, 3)},
        wd \in {<<>>, <<"M", "o", ",", " ", "t", "h">>, <<"x", "x">>},
        interval \in {1, 2},
        end_date \in {None, D(2024, 2, 10)} }

MonthlyRows ==
    { ExpandRow("monthly", start, <<>>, md, interval, None) :
        start \in {D(2024, 1, 31), D(2023, 1, 31), D(2024, 1, 15)},
        md \in {<<>>, <<"3", "1">>, <<"1", ",", "1", "5">>},
        interval \in {1, 2} }

ExpandRows == WeeklyRows \cup MonthlyRows

\* Days from the start date to the first day and to the last day of a window
StartOffsets == {0, 9, 29, 36, 59}
UntilOffsets == {21, 40, 75}

\* First days of a window that lie before the start date of the series
EarlyStarts == {<<2022, 12, 25>>, <<2023, 12, 25>>}

InitExpand ==
    /\ series \in {1 :> row : row \in ExpandRows}
    /\ bookings = <<>>
    /\ tasks = <<>>
    /\ apartments = <<>>
    /\ today = Today0
    /\ lastOp = Op("init")
    /\ loop = [queue |-> <<>>, run |-> <<>>]
    /\ timelogs = <<>>

\* expand_series_job at "occ = _expand_series_occurrences(ser, start_from, horizon)"
call_expand_series_occurrences(start_from, until) ==
    /\ lastOp.name = "init"
    /\ lastOp' = [name |-> "_expand_series_occurrences", start_from |-> start_from, until |-> until,
                  out |-> _expand_series_occurrences(series[1], start_from, until)]
    /\ UNCHANGED <<bookings, tasks, apartments, series, today, loop, timelogs>>

NextExpand ==
    \/ \E k \in StartOffsets, n \in UntilOffsets :
          call_expand_series_occurrences(AddDays(_parse_date(series[1].start_date), k),
                                         AddDays(_parse_date(series[1].start_date), n))
    \/ \E sf \in EarlyStarts, n \in UntilOffsets :
          /\ DateLess(sf, _parse_date(series[1].start_date))
          /\ ToOrdinal(_parse_date(series[1].start_date)) - ToOrdinal(sf) <= 40
          /\ call_expand_series_occurrences(sf, AddDays(_parse_date(series[1].start_date), n))

SpecExpand == InitExpand /\ [][NextExpand]_vars

\* The recurrence rules as a whole: yearly series, series with a count, day lists
\* out of order, unknown frequencies and start dates that do not parse.
RuleRow(freq, start, wd, md, interval, end_date, count) ==
    [ExpandRow(freq, start, wd, md, interval, end_date) EXCEPT !.count = count]

RuleRows ==
    { RuleRow("yearly", start, <<>>, <<>>, interval, end_date, count) :
        start \in {D(2024, 2, 29), D(2025, 3, 10)},
        interval \in {1, 2, 4},
        end_date \in {None, D(2028, 2, 29)},
        count \in {NULL, 2} }
    \cup { RuleRow(freq, start, <<>>, <<>>, 1, None, NULL) :
        freq \in {"once", "daily"}, start \in {D(2026, 1, 20), D(2026, 2, 30)} }
    \cup { RuleRow(freq, D(2026, 2, 30), <<>>, <<>>, 1, None, NULL) : freq \in {"weekly", "monthly", "yearly"} }
    \cup { RuleRow("monthly", D(2026, 1, 10), <<>>, md, 1, end_date, count) :
        md \in {<<"3", "1", ",", "3", "0">>, <<"1", "5", ",", "1">>},
        end_date \in {None, D(2026, 3, 20)},
        count \in {NULL, 3} }
    \cup { RuleRow("weekly", D(2026, 1, 5), <<"t", "h", ",", " ", "M", "o">>, <<>>, interval, end_date, count) :
        interval \in {1, 2},
        end_date \in {None, D(2026, 2, 10)},
        count \in {NULL, 2} }

\* The windows asked for: <<start_from, until>>
RuleWindows ==
    ({<<2025, 12, 20>>, <<2026, 1, 10>>, <<2026, 2, 20>>} \X {<<2026, 1, 5>>, <<2026, 2, 28>>, <<2026, 3, 20>>})
    \cup {<<<<2024, 1, 1>>, <<2024, 12, 31>>>>, <<<<2024, 2, 29>>, <<2028, 3, 10>>>>,
          <<<<2027, 3, 1>>, <<2029, 3, 1>>>>}

\* Bound: the longest window, in days, a weekly or monthly series is expanded over
MaxWindowDays == 75

InitRules ==
    /\ series \in {1 :> row : row \in RuleRows}
    /\ bookings = <<>>
    /\ tasks = <<>>
    /\ apartments = <<>>
    /\ today = Today0
    /\ lastOp = Op("init")
    /\ loop = [queue |-> <<>>, run |-> <<>>]
    /\ timelogs = <<>>

NextRules ==
    \/ \E w \in RuleWindows :
          /\ Lower(series[1].frequency) \in {"weekly", "monthly"} =>
                ToOrdinal(w[2]) - ToOrdinal(w[1]) <= MaxWindowDays
          /\ call_expand_series_occurrences(w[1], w[2])
    \/ \E days \in {30, 60} : admin_series_expand(days)
    \/ Tick

SpecRules == InitRules /\ [][NextRules]_vars

(***************************************************************************)
(* The event loop: the scheduler's tick and the routes are coroutines of   *)
(* one asyncio loop (main.py 541-554, routers/admin.py)                    *)
(***************************************************************************)
\* Bound: the passes requested and not yet finished.
MaxPasses == 2

\* A runtime that starts a pass while another is running (worker threads).
event_loop_free_threads(run) == TRUE

\* A coroutine is started when no other is running: the jobs are async functions
\* without an await (jobs.py 434-615, main.py 600-817) or plain functions called
\* from an async route (admin.py 399-402), so each runs to its end before the loop
\* starts the next.
event_loop_free(run) == run = <<>>

\* The scheduler's trigger fires or a request for /import or /series/expand
\* arrives: the coroutine is queued on the loop.
request(job, outcome) ==
    /\ Len(loop.queue) + Len(loop.run) < MaxPasses
    /\ loop' = [loop EXCEPT !.queue = Append(@, [job |-> job, outcome |-> outcome])]
    /\ lastOp' = Op("other")
    /\ UNCHANGED <<bookings, tasks, apartments, series, today, timelogs>>

\* The flush of a session: the rows it deleted are deleted, the rows it changed are
\* written, the rows it added are inserted under new rowids.  snap is the Task
\* table the session read, result the table it computed from snap.
apply_changes(cur, snap, result) ==
    LET kept  == {id \in DOMAIN cur : id \notin DOMAIN snap \/ id \in DOMAIN result}
        added == Ascending(DOMAIN result \ DOMAIN snap)
    IN  [id \in kept \cup {NewId(cur, k) : k \in 1..Len(added)} |->
            IF id \in kept
            THEN IF id \in DOMAIN snap /\ result[id] # snap[id] THEN result[id] ELSE cur[id]
            ELSE result[added[id - NewId(cur, 0)]]]

\* The first half of a pass: a refresh pass fetches, walks the records and commits
\* the Booking table, then reads the bookings and the Tasks for the reconcile step;
\* an expansion pass reads the series and their Tasks.
pass_read ==
    /\ loop.queue # <<>>
    /\ event_loop_free(loop.run)
    /\ LET trig  == Head(loop.queue)
           items == get_reservations(trig.outcome)
           r     == IF trig.job = "refresh_bookings_job"
                    THEN process_items(Ascending(DOMAIN items), items, bookings, tasks) @@ [A |-> apartments]
                    ELSE main_process_items(Ascending(DOMAIN items), items, bookings, tasks, apartments)
           B2    == IF trig.job = "refresh_bookings_job" THEN r.B
                    ELSE Restrict(r.B, {i \in DOMAIN r.B : i \in DOMAIN items /\ ~should_skip(items[i])})
       IN  IF trig.job = "expand_series_job"
           THEN /\ loop' = [queue |-> Tail(loop.queue), run |-> Append(loop.run, trig @@ [B |-> bookings, snap |-> tasks])]
                /\ UNCHANGED <<bookings, tasks, apartments>>
           ELSE /\ bookings' = B2
                /\ tasks' = r.T
                /\ apartments' = r.A
                /\ loop' = [queue |-> Tail(loop.queue), run |-> Append(loop.run, trig @@ [B |-> B2, snap |-> r.T])]
    /\ lastOp' = Op("other")
    /\ UNCHANGED <<series, today, timelogs>>

\* The second half of the i-th running pass: the reconcile step and the closing
\* cleanup, or the insertion of the series Tasks, are committed.
pass_write(i) ==
    /\ i \in 1..Len(loop.run)
    /\ LET p      == loop.run[i]
           result == IF p.job = "expand_series_job"
                     THEN expand_series_job(p.snap, series, today, p.outcome)
                     ELSE DeleteBlankDates(upsert_tasks_from_bookings(AllRows(p.B), p.snap, p.B, apartments))
       IN  /\ tasks' = apply_changes(tasks, p.snap, result)
           /\ lastOp' = Op(p.job)
    /\ IdsFit(tasks')
    /\ loop' = [loop EXCEPT !.run = SubSeq(@, 1, i - 1) \o SubSeq(@, i + 1, Len(@))]
    /\ UNCHANGED <<bookings, apartments, series, today, timelogs>>

\* One series that falls once, on 2026-01-20, and has no Task yet.
InitLoop ==
    /\ bookings = <<>>
    /\ tasks = <<>>
    /\ apartments = <<>>
    /\ series = 1 :> ExpandRow("once", D(2026, 1, 20), <<>>, <<>>, 1, None)
    /\ today = Today0
    /\ lastOp = Op("init")
    /\ loop = [queue |-> <<>>, run |-> <<>>]
    /\ timelogs = <<>>

NextLoop ==
    \/ \E job \in {"refresh_bookings_job", "main_refresh_bookings_job"},
          outcome \in {f \in ItemLists : \A i \in DOMAIN f : i = 101 /\ f[i] \in {StayA, StayA2, Cancelled}} :
          request(job, outcome)
    \/ request("expand_series_job", 30)
    \/ pass_read
    \/ \E i \in 1..MaxPasses : pass_write(i)

SpecLoop == InitLoop /\ [][NextLoop]_vars

(***************************************************************************)
(* The timers of the scheduler (main.py, startup_event)                   *)
(***************************************************************************)
\* A monthly series an operator added on the first of January: admin_series_add
\* expanded it 30 days ahead and sent the notifications.
TimerSeries == 1 :> ExpandRow("monthly", D(2026, 1, 1), <<>>, <<>>, 1, None)

InitTimers ==
    /\ bookings = <<>>
    /\ tasks = send_assignment_emails_job(expand_series_job(<<>>, TimerSeries, Today0, 30))
    /\ apartments = <<>>
    /\ series = TimerSeries
    /\ today = Today0
    /\ lastOp = Op("admin_series_add")
    /\ loop = [queue |-> <<>>, run |-> <<>>]
    /\ timelogs = <<>>

\* scheduler.add_job(refresh_bookings_job, IntervalTrigger(minutes=REFRESH_INTERVAL_MINUTES))
refresh_timer(outcome) == main_refresh_bookings_job(outcome)

\* scheduler.add_job(send_assignment_emails_job, IntervalTrigger(minutes=30))
email_timer ==
    /\ tasks' = send_assignment_emails_job(tasks)
    /\ lastOp' = Op("send_assignment_emails_job")
    /\ UNCHANGED <<bookings, apartments, series, today, loop, timelogs>>

\* The fetches of the timer runs report at most one reservation
TimerLists == {f \in ItemLists : Cardinality(DOMAIN f) <= 1}

\* The jobs the scheduler holds, and the passing of the days.  No job of the
\* scheduler calls expand_series_job.
NextTimers ==
    \/ \E items \in TimerLists : refresh_timer(items)
    \/ refresh_timer(FetchError)
    \/ email_timer
    \/ Tick

\* An interval trigger fires again and again, and the days pass.  The refresh
\* timer is taken to change the stored state infinitely often (the answers of the
\* API keep changing), which implies weak fairness of the refresh timer.
SpecTimers ==
    /\ InitTimers
    /\ [][NextTimers]_vars
    /\ WF_vars(email_timer)
    /\ WF_vars(Tick)
    /\ []<><<\E items \in TimerLists : refresh_timer(items)>>_vars

(***************************************************************************)
(* Assignments and the expansion pass                                      *)
(***************************************************************************)
\* An operator assigns and reassigns the Tasks of a series while the days pass and
\* the expansion pass is asked for.
NextAssign ==
    \/ \E id \in 1..MaxSeriesTaskId, sid \in {NULL} \cup StaffIds : admin_task_assign(id, sid)
    \/ \E days \in {30, 60} : admin_series_expand(days)
    \/ Tick

SpecAssign == InitTimers /\ [][NextAssign]_vars

(***************************************************************************)
(* The cleaner's time tracking and the deletions (routers/cleaner.py,      *)
(* routers/admin.py)                                                       *)
(***************************************************************************)
\* The active Staff rows that hold a magic token
Cleaners == {1, 2}

\* Bound: the largest TimeLog rowid
MaxTimeLogs == 2

LogsFit(L) == \A l \in DOMAIN L : l <= MaxTimeLogs

cleaner_start(staff_id, task_id) ==
    LET open_tls == {l \in DOMAIN timelogs : /\ timelogs[l].staff_id = staff_id
                                             /\ timelogs[l].ended_at = NoneStr
                                             /\ timelogs[l].task_id # task_id}
        other_tasks == {timelogs[l].task_id : l \in open_tls} \cap DOMAIN tasks
        L1 == close_logs(timelogs, open_tls)
        L2 == IF open_logs(timelogs, task_id, staff_id) # {} THEN L1
              ELSE Put(L1, NewId(L1, 1), TimeLog(task_id, staff_id))
    IN  /\ task_id \in DOMAIN tasks
        /\ LogsFit(L2)
        /\ timelogs' = L2
        /\ tasks' = [id \in DOMAIN tasks |->
                       IF id = task_id THEN [tasks[id] EXCEPT !.status = "running"]
                       ELSE IF id \in other_tasks /\ tasks[id].status = "running"
                       THEN [tasks[id] EXCEPT !.status = "open"]
                       ELSE tasks[id]]
        /\ lastOp' = Op("cleaner_start")
        /\ UNCHANGED <<bookings, apartments, series, today, loop>>

\* The open TimeLog keeps ended_at NULL: the task is paused.
cleaner_stop(staff_id, task_id) ==
    /\ task_id \in DOMAIN tasks
    /\ tasks' = [tasks EXCEPT ![task_id].status = "paused"]
    /\ lastOp' = Op("cleaner_stop")
    /\ UNCHANGED <<bookings, apartments, series, today, loop, timelogs>>

cleaner_done(staff_id, task_id) ==
    /\ task_id \in DOMAIN tasks
    /\ timelogs' = close_logs(timelogs, newest(open_logs(timelogs, task_id, staff_id)))
    /\ tasks' = [tasks EXCEPT ![task_id].status = "done"]
    /\ lastOp' = Op("cleaner_done")
    /\ UNCHANGED <<bookings, apartments, series, today, loop>>

\* For a Task that does not exist "t.status = ..." raises before the commit.
cleaner_reopen(staff_id, task_id) ==
    /\ task_id \in DOMAIN tasks
    /\ timelogs' = Restrict(timelogs, DOMAIN timelogs \
                        newest({l \in logs_of_task(timelogs, task_id) : timelogs[l].staff_id = staff_id}))
    /\ tasks' = [tasks EXCEPT ![task_id].status = "open"]
    /\ lastOp' = Op("cleaner_reopen")
    /\ UNCHANGED <<bookings, apartments, series, today, loop>>

cleaner_task_delete(staff_id, task_id) ==
    /\ task_id \in DOMAIN tasks
    /\ tasks[task_id].assigned_staff_id = staff_id
    /\ ~tasks[task_id].auto_generated
    /\ timelogs' = Restrict(timelogs, DOMAIN timelogs \ logs_of_task(timelogs, task_id))
    /\ tasks' = Remove(tasks, task_id)
    /\ lastOp' = Op("cleaner_task_delete")
    /\ UNCHANGED <<bookings, apartments, series, today, loop>>

\* The Tasks of the series, whatever their date
series_future_tasks_any_date(T, series_id, day) == {id \in DOMAIN T : T[id].series_id = series_id}

\* The form of a manual Task saved with an empty apartment field
admin_task_update_manual(task_id, date, planned_minutes, description, staff_id) ==
    LET staff_id_val == IF staff_id \in StaffIds THEN staff_id ELSE NULL
        t  == tasks[task_id]
        t1 == [t EXCEPT !.date = Prefix(date, 10), !.apartment_id = NULL,
                        !.planned_minutes = planned_minutes,
                        !.notes = IF description # "" THEN description ELSE NoneStr,
                        !.assigned_staff_id = staff_id_val,
                        !.assignment_status = IF Truthy(staff_id_val)
                                              THEN (IF @ # "accepted" THEN "pending" ELSE @)
                                              ELSE NoneStr]
        T1 == [tasks EXCEPT ![task_id] = t1]
    IN  /\ task_id \in DOMAIN tasks
        /\ ~t.auto_generated
        /\ ~Blank(date)
        /\ tasks' = IF Truthy(staff_id_val) /\ staff_id_val # t.assigned_staff_id
                    THEN send_assignment_emails_job(T1) ELSE T1
        /\ lastOp' = Op("admin_task_update_manual")
        /\ UNCHANGED <<bookings, apartments, series, today, loop, timelogs>>

\* query(Task).filter(Task.series_id == series_id, Task.date >= today_s): the ids
series_future_tasks(T, series_id, day) ==
    {id \in DOMAIN T : T[id].series_id = series_id /\ StrLeq(isoformat(day), T[id].date)}

admin_series_delete(series_id, delete_future) ==
    /\ series_id \in DOMAIN series
    /\ tasks' = IF delete_future # 0
                THEN Restrict(tasks, DOMAIN tasks \ series_future_tasks(tasks, series_id, today))
                ELSE tasks
    /\ series' = Remove(series, series_id)
    /\ lastOp' = Op("admin_series_delete")
    /\ UNCHANGED <<bookings, apartments, today, loop, timelogs>>

\* Two series an operator added before the first of January: one on the first of
\* each month since December, one for a single day.
CleanerSeries ==
    (1 :> ExpandRow("monthly", D(2025, 12, 1), <<>>, <<>>, 1, None)) @@
    (2 :> ExpandRow("once", D(2026, 1, 20), <<>>, <<>>, 1, None))

\* The Task table of a day's work: the Task of reservation 101, a manual Task
\* assigned to cleaner 1, and the Tasks of the two series.
CleanerTasks ==
    LET items == 101 :> StayA
        r  == process_items(<<101>>, items, <<>>, <<>>)
        T0 == DeleteBlankDates(upsert_tasks_from_bookings(AllRows(r.B), r.T, r.B, <<>>))
        T1 == Put(T0, NewId(T0, 1), new_task(D(2026, 1, 6), 90, "", 1))
    IN  expand_series_job(T1, CleanerSeries, Today0, 30)

InitCleaner ==
    /\ bookings = process_items(<<101>>, 101 :> StayA, <<>>, <<>>).B
    /\ tasks = CleanerTasks
    /\ apartments = <<>>
    /\ series = CleanerSeries
    /\ today = Today0
    /\ lastOp = Op("init")
    /\ loop = [queue |-> <<>>, run |-> <<>>]
    /\ timelogs = <<>>

\* The fetches of the cleaner runs: reservation 101 as before, cancelled, or gone
CleanerLists == {<<>>, 101 :> StayA, 101 :> Cancelled}

\* The work of the cleaners: cleaner 1 on the Task of the reservation and the
\* manual Task, cleaner 2 on the manual Task and the Task of series 1 due today
Work == {<<1, 1>>, <<1, 2>>, <<2, 2>>, <<2, 4>>}

\* The cleaners track their time while an operator deletes Tasks and series 1, and
\* the refresh pass runs.
NextCleaner ==
    \/ \E w \in Work : cleaner_start(w[1], w[2])
    \/ \E w \in Work : cleaner_stop(w[1], w[2])
    \/ \E w \in Work : cleaner_done(w[1], w[2])
    \/ \E w \in Work : cleaner_reopen(w[1], w[2])
    \/ \E s \in Cleaners, id \in DOMAIN tasks : cleaner_task_delete(s, id)
    \/ \E id \in {1, 2} : admin_task_delete(id)
    \/ \E id \in {1, 2} : admin_task_update_manual(id, D(2026, 1, 7), 120, "", 1)
    \/ \E delete_future \in {0, 1} : admin_series_delete(1, delete_future)
    \/ \E items \in CleanerLists : refresh_bookings_job(items)

SpecCleaner == InitCleaner /\ [][NextCleaner]_vars

\* An operator deletes series and Tasks while the days pass, the refresh pass runs
\* and a cleaner works on the Tasks of series 1.
NextDelete ==
    \/ \E sid \in DOMAIN series, delete_future \in {0, 1} : admin_series_delete(sid, delete_future)
    \/ \E id \in {2, 5} : admin_task_delete(id)
    \/ \E id \in {3, 4} : cleaner_start(2, id)
    \/ \E id \in {3, 4} : cleaner_done(2, id)
    \/ \E items \in CleanerLists : refresh_bookings_job(items)
    \/ Tick

SpecDelete == InitCleaner /\ [][NextDelete]_vars

(***************************************************************************)
(* Properties of the reconcile pass                                        *)
(***************************************************************************)
\* The state is the one a refresh pass (and the reconcile pass it ends with) left.
AfterRefresh == lastOp.name \in {"refresh_bookings_job", "main_refresh_bookings_job"}

\* The Booking row b as the reconciler is passed it
Passed(b) == [id |-> b] @@ bookings[b]

\* The bookings of the passed set that satisfy the acceptance rule
AcceptedIds == {b \in DOMAIN bookings : Accepted(Passed(b))}

TasksOf(b) == {id \in DOMAIN tasks : tasks[id].booking_id = b}

\* C1. Upsert uniqueness: after a reconcile pass, every booking of the passed set
\* that satisfies the acceptance rule has exactly one Task.
UpsertUniqueness ==
    AfterRefresh => \A b \in AcceptedIds : Cardinality(TasksOf(b)) = 1

\* A pass that took the update branch for one booking and the insert branch for another.
UpsertUniquenessWitness ==
    /\ AfterRefresh
    /\ \E b1, b2 \in AcceptedIds :
          /\ b1 \in lastOp.tasked_before
          /\ b2 \notin lastOp.tasked_before
          /\ TasksOf(b1) # {} /\ TasksOf(b2) # {}

\* C2. Stale deletion: after a reconcile pass, no Task with a booking reference
\* remains whose booking is not in the accepted subset of the passed set, the empty
\* passed set included.
StaleDeletion ==
    AfterRefresh => \A id \in DOMAIN tasks :
                       tasks[id].booking_id # NULL => tasks[id].booking_id \in AcceptedIds

\* The fields a human owns once they are set
HumanFields == {"planned_minutes", "notes", "assigned_staff_id", "assignment_status", "status"}

\* C3. Human-field preservation: a refresh pass leaves planned_minutes, notes,
\* assigned_staff_id, assignment_status and status of every existing Task whose
\* booking is in the accepted set as they were.
HumanFieldPreservation ==
    [][AfterRefresh' =>
         \A id \in DOMAIN tasks :
            tasks[id].booking_id \in AcceptedIds'
               => (id \in DOMAIN tasks' /\ \A f \in HumanFields : tasks'[id][f] = tasks[id][f])]_vars

\* A pass went over a Task that was done, assigned and of non-default duration.
HumanFieldPreservationWitness ==
    /\ AfterRefresh
    /\ \E id \in DOMAIN tasks :
          /\ tasks[id].booking_id \in AcceptedIds \cap lastOp.tasked_before
          /\ tasks[id].status = "done"
          /\ tasks[id].planned_minutes = 120
          /\ tasks[id].assigned_staff_id = 1
          /\ tasks[id].assignment_status = "pending"

\* C4. Idempotence: a second reconcile pass over the same booking set leaves the
\* Task table as the first pass left it.
Idempotence ==
    AfterRefresh => upsert_tasks_from_bookings(AllRows(bookings), tasks, bookings, apartments) = tasks

\* The first pass inserted a Task, which only the second pass gets to see in its
\* cleanup loops, next to a Task without a booking.
IdempotenceWitness ==
    /\ AfterRefresh
    /\ \E b \in AcceptedIds : b \notin lastOp.tasked_before /\ Cardinality(TasksOf(b)) = 1
    /\ \E id \in DOMAIN tasks : tasks[id].booking_id = NULL

\* C5. Tasks without a booking reference and with a non-blank date are left in the
\* store, every field unchanged, by a reconcile pass, whatever the date string is.
ManualTasksUntouched ==
    [][AfterRefresh' =>
         \A id \in DOMAIN tasks :
            (tasks[id].booking_id = NULL /\ ~Blank(tasks[id].date))
               => (id \in DOMAIN tasks' /\ tasks'[id] = tasks[id])]_vars

\* C8. Booking cache invariant: after a refresh pass every Booking row has non-empty,
\* well-formed (10 characters, 2 hyphens) arrival and departure, departure > arrival.
BookingCacheInvariant ==
    AfterRefresh => \A b \in DOMAIN bookings :
                       /\ ~Blank(bookings[b].arrival) /\ ~Blank(bookings[b].departure)
                       /\ ~BadFormat(bookings[b].arrival) /\ ~BadFormat(bookings[b].departure)
                       /\ StrLess(bookings[b].arrival, bookings[b].departure)

\* C9. Upstream cancellation wins: after a refresh pass that rejected the record of
\* a cached booking, neither the Booking row nor any Task of that booking exists.
CancellationWins ==
    AfterRefresh => \A b \in lastOp.rejected : b \notin DOMAIN bookings /\ TasksOf(b) = {}

\* A pass that rejected the record of a booking that had a Booking row and a Task.
CancellationWinsWitness ==
    /\ AfterRefresh
    /\ lastOp.rejected \cap lastOp.tasked_before # {}
    /\ bookings # <<>>

\* C10. Disappearance from upstream: after a refresh pass, a cached booking that the
\* fetched list did not contain has no Booking row and no Task.
DisappearanceDeletes ==
    AfterRefresh => \A b \in lastOp.absent : b \notin DOMAIN bookings /\ TasksOf(b) = {}

NextArrivalCorrectness ==
    lastOp.name = "_index_next_arrivals" =>
        \A b \in AcceptedIds :
            LET cand == {o \in AcceptedIds \ {b} :
                            /\ bookings[o].apartment_id = bookings[b].apartment_id
                            /\ StrLeq(bookings[b].departure, bookings[o].arrival)}
            IN  IF cand = {} THEN lastOp.next_info[b] = NoNext
                ELSE \E c \in cand :
                        /\ \A o \in cand :
                              \/ StrLess(bookings[c].arrival, bookings[o].arrival)
                              \/ /\ bookings[c].arrival = bookings[o].arrival
                                 /\ StrLeq(bookings[c].departure, bookings[o].departure)
                        /\ lastOp.next_info[b] = <<bookings[c].arrival, bookings[c].adults, bookings[c].children,
                                                   bookings[c].guest_comments, bookings[c].guest_name>>

\* Stays 01-01..01-05 and 01-05..01-10 of apartment 1 give the first a next arrival
\* of 01-05, although a booking with a lower rowid arrives later in the same
\* apartment; the stay of apartment 2 has no next arrival.
NextArrivalCorrectnessWitness ==
    /\ lastOp.name = "_index_next_arrivals"
    /\ DOMAIN bookings = {101, 102, 103}
    /\ bookings[102].apartment_id = 1 /\ bookings[102].arrival = D(2026, 1, 1) /\ bookings[102].departure = D(2026, 1, 5)
    /\ bookings[103].apartment_id = 1 /\ bookings[103].arrival = D(2026, 1, 5)
    /\ bookings[101].apartment_id = 1 /\ bookings[101].arrival = D(2026, 1, 10)
    /\ lastOp.next_info[102][1] = D(2026, 1, 5)
    /\ lastOp.next_info[101] = NoNext

\* C15. Provenance exclusivity: no Task has both a booking reference and a series
\* reference, after any sequence of reconcile passes, expansion passes and manual
\* create, edit and delete operations.
ProvenanceExclusivity ==
    \A id \in DOMAIN tasks : tasks[id].booking_id = NULL \/ tasks[id].series_id = NULL

\* A reconcile pass ran over a table that holds a Task of a booking next to a Task
\* of a series.
ProvenanceExclusivityWitness ==
    /\ AfterRefresh
    /\ \E i, j \in DOMAIN tasks :
          /\ tasks[i].booking_id \in lastOp.tasked_before
          /\ tasks[j].series_id # NULL /\ tasks[j].booking_id = NULL

\* C16. External fetch failure leaves local state untouched: a refresh pass whose
\* fetch failed leaves the Booking table and the Task table exactly as they were.
FetchFailureUntouched ==
    [][(AfterRefresh' /\ lastOp'.failed) => (bookings' = bookings /\ tasks' = tasks)]_vars

\* C17. Atomic reconciliation pass: a refresh pass during which the storage fails
\* leaves the Booking table and the Task table as they were before the pass.
AtomicPass ==
    [][lastOp'.name = "refresh_bookings_job: storage failure"
          => (bookings' = bookings /\ tasks' = tasks)]_vars

SeriesTasks(sid) == {id \in DOMAIN tasks : tasks[id].series_id = sid}

\* C6. Count cap: a series with count = c never has more than c Tasks, however
\* often it is expanded.
CountCap ==
    \A sid \in DOMAIN series :
        Truthy(series[sid].count) => Cardinality(SeriesTasks(sid)) <= series[sid].count

\* C7. Per-series-date uniqueness: no two Tasks share a series and a date.
SeriesDateUniqueness ==
    \A i, j \in DOMAIN tasks :
        (tasks[i].series_id # NULL /\ tasks[i].series_id = tasks[j].series_id
            /\ tasks[i].date = tasks[j].date) => i = j

\* The next-arrival index of the bookings the pass accepted
NextOf(b) == _index_next_arrivals(SelectSeq(AllRows(bookings), Accepted))[b]

Expanded(freq) == lastOp.name = "_expand_series_occurrences" /\ series[1].frequency = freq

\* The days of the years the windows lie in
Calendar == {d \in (2022..2024) \X (1..12) \X (1..31) : ValidDate(d[1], d[2], d[3])}

\* The dates of a list, and whether the list is in strictly ascending order
DatesOf(out) == {out[i] : i \in 1..Len(out)}
StrictlyAscending(out) == \A i, j \in 1..Len(out) : i < j => DateLess(out[i], out[j])

\* The bounds of the expansion: max(start_from, start_date) and min(until, end_date)
WindowLo == DateMax(lastOp.start_from, _parse_date(series[1].start_date))
WindowHi == IF series[1].end_date = None THEN lastOp.until
            ELSE DateMin(lastOp.until, _parse_date(series[1].end_date))

\* The weekday set the weekday list of the series stands for (0 is Monday)
WeekdaySet ==
    IF series[1].byweekday = <<"M", "o", ",", " ", "t", "h">> THEN {0, 3}
    ELSE {Weekday(_parse_date(series[1].start_date))}

\* C13. Weekly recurrence: for an active weekly series with interval N and no count
\* the expansion returns, in ascending order, exactly the dates d of
\* [max(start_from, start_date), min(until, end_date)] whose weekday is in the
\* weekday set (the start date's weekday if the set is empty) and whose week,
\* counted from the Monday of the start date's week, is a multiple of N.
WeeklyRecurrence ==
    Expanded("weekly") =>
        /\ StrictlyAscending(lastOp.out)
        /\ DatesOf(lastOp.out) =
              {d \in Calendar :
                  /\ DateLeq(WindowLo, d) /\ DateLeq(d, WindowHi)
                  /\ Weekday(d) \in WeekdaySet
                  /\ LET s0 == _parse_date(series[1].start_date)
                     IN  ((ToOrdinal(d) - (ToOrdinal(s0) - Weekday(s0))) \div 7) % series[1].interval = 0}

\* Start 2024-01-01 (a Monday), interval 1, no weekday list, window
\* [2024-01-01, 2024-01-22]: exactly 01-01, 01-08, 01-15, 01-22.
WeeklyRecurrenceWitness ==
    /\ Expanded("weekly")
    /\ series[1].start_date = D(2024, 1, 1) /\ series[1].interval = 1 /\ series[1].byweekday = <<>>
    /\ lastOp.start_from = <<2024, 1, 1>> /\ lastOp.until = <<2024, 1, 22>>
    /\ lastOp.out = <<<<2024, 1, 1>>, <<2024, 1, 8>>, <<2024, 1, 15>>, <<2024, 1, 22>>>>

\* The days of the month the day list of the series stands for
MonthDays ==
    IF series[1].bymonthday = <<"3", "1">> THEN {31}
    ELSE IF series[1].bymonthday = <<"1", ",", "1", "5">> THEN {1, 15}
    ELSE {_parse_date(series[1].start_date)[3]}

\* The month of d is a multiple of the interval after the month of the start date
SteppedMonth(d) ==
    LET s0     == _parse_date(series[1].start_date)
        months == (d[1] * 12 + d[2]) - (s0[1] * 12 + s0[2])
    IN  months >= 0 /\ months % series[1].interval = 0

\* C14. Monthly short-month clamp: where a configured day of the month (the start
\* date's day when none is configured) exceeds the length of a stepped month, the
\* last day of that month is an occurrence if it lies in the window (the month is
\* not skipped), and every occurrence is a configured day clamped to its own month
\* (later months use the original day).
ShortMonthClamp ==
    Expanded("monthly") =>
        /\ \A d \in Calendar :
              ( /\ SteppedMonth(d)
                /\ d[3] = DaysInMonth(d[1], d[2])
                /\ \E md \in MonthDays : md > d[3]
                /\ DateLeq(WindowLo, d) /\ DateLeq(d, WindowHi) )
              => d \in DatesOf(lastOp.out)
        /\ \A d \in DatesOf(lastOp.out) :
              SteppedMonth(d) /\ \E md \in MonthDays : d[3] = Min(md, DaysInMonth(d[1], d[2]))

\* C20. Monthly recurrence is exact: for an active monthly series with interval N
\* and no count the expansion returns every date, and only the dates, that are a
\* configured day (clamped to the month's last day) of a stepped month and lie in
\* [max(start_from, start_date), min(until, end_date)].
MonthlyExact ==
    Expanded("monthly") =>
        DatesOf(lastOp.out) =
            {d \in Calendar :
                /\ SteppedMonth(d)
                /\ \E md \in MonthDays : d[3] = Min(md, DaysInMonth(d[1], d[2]))
                /\ DateLeq(WindowLo, d) /\ DateLeq(d, WindowHi)}

(***************************************************************************)
(* Properties of the timers                                                *)
(***************************************************************************)
\* An active series has an occurrence, from its start date to the end of the
\* 30 days the expansion pass looks ahead, for which there is no Task.
MissingOccurrence ==
    \E sid \in DOMAIN series :
        /\ series[sid].active
        /\ \E d \in DatesOf(_expand_series_occurrences(series[sid],
                                date_or(_parse_date(series[sid].start_date), today),
                                AddDays(today, 30))) :
              ~\E id \in DOMAIN tasks : tasks[id].series_id = sid /\ tasks[id].date = isoformat(d)

\* C19 (Periodic expansion): as the timers fire and the days pass, without any
\* action of an operator, every occurrence of an active series that has entered
\* the expansion horizon eventually has its Task.
PeriodicExpansion == MissingOccurrence ~> ~MissingOccurrence


(***************************************************************************)
(* Properties of the recurrence rules                                      *)
(***************************************************************************)
\* The call of _expand_series_occurrences ended, with a list or with an exception
Called == lastOp.name = "_expand_series_occurrences"
StartDate == _parse_date(series[1].start_date)

\* C21 (Yearly recurrence): for an active yearly series with interval N, no count
\* and a start date that parses (29 February included), the call does not raise
\* and returns exactly the dates with the start date's month and day that lie a
\* multiple of N years after the start date, in
\* [max(start_from, start_date), min(until, end_date)].
YearlyRecurrence ==
    (Called /\ series[1].frequency = "yearly" /\ StartDate # NoDate /\ ~Truthy(series[1].count)) =>
        /\ lastOp.out # ValueError
        /\ DatesOf(lastOp.out) =
              {d \in {<<y, StartDate[2], StartDate[3]>> : y \in 2024..2029} :
                  /\ ValidDate(d[1], d[2], d[3])
                  /\ d[1] >= StartDate[1]
                  /\ (d[1] - StartDate[1]) % series[1].interval = 0
                  /\ DateLeq(WindowLo, d) /\ DateLeq(d, WindowHi)}

\* The end date of the series, NoDate when none is set
EndDate == IF series[1].end_date = None THEN NoDate ELSE _parse_date(series[1].end_date)

\* d lies on or after the start date and on or before the end date of the series
InSeries(d) == DateLeq(StartDate, d) /\ (EndDate # NoDate => DateLeq(d, EndDate))

\* C22 (Expansion bounds): every date d a call of _expand_series_occurrences returns
\* satisfies start_from <= d <= until, d >= start_date and, with an end date set,
\* d <= end_date; and every Task expand_series_job created for the series is dated
\* from the start date on, up to the end date and up to the horizon of the call.
ExpansionBounds ==
    /\ (Called /\ lastOp.out # ValueError) =>
          \A d \in DatesOf(lastOp.out) :
              DateLeq(lastOp.start_from, d) /\ DateLeq(d, lastOp.until) /\ InSeries(d)
    /\ \A id \in DOMAIN tasks :
          tasks[id].series_id = 1 =>
              /\ InSeries(_parse_date(tasks[id].date))
              /\ DateLeq(_parse_date(tasks[id].date), AddDays(today, 60))

\* A call over a window that begins before the start date and ends after the end
\* date returned dates.
ExpansionBoundsWitness ==
    /\ Called /\ lastOp.out # ValueError /\ lastOp.out # <<>>
    /\ EndDate # NoDate /\ DateLess(EndDate, lastOp.until)
    /\ DateLess(lastOp.start_from, StartDate)

\* C23 (Ordered output): the list a call of _expand_series_occurrences returns is in
\* strictly ascending date order, so it holds no date twice, for every frequency
\* and every weekday list and day-of-month list, lists out of order and lists with
\* days that clamp to one date included.
OrderedOutput == (Called /\ lastOp.out # ValueError) => StrictlyAscending(lastOp.out)

(***************************************************************************)
(* Properties of expand_series_job                                         *)
(***************************************************************************)
\* C24 (The Expander never mutates existing tasks): a call of expand_series_job
\* leaves every Task that existed before the call in the table with all its fields
\* unchanged, assign_notified_at and the assignment fields included.
ExpanderFrame ==
    [][lastOp'.name = "admin_series_expand" =>
          \A id \in DOMAIN tasks : id \in DOMAIN tasks' /\ tasks'[id] = tasks[id]]_vars

\* The frequency of the series is none of weekly, monthly, yearly
Unrecognized == Lower(series[1].frequency) \notin {"weekly", "monthly", "yearly"}

\* C25 (Permissive series misconfiguration): a series whose start date does not
\* parse yields no occurrence and no exception; a series with an unrecognized
\* frequency yields its start date when that date lies in the window asked for and
\* nothing otherwise; and whatever the number of expand_series_job calls, such a
\* series has at most one Task, dated at its start date.
PermissiveMisconfiguration ==
    /\ (Called /\ StartDate = NoDate) => lastOp.out = <<>>
    /\ (Called /\ StartDate # NoDate /\ Unrecognized) =>
          lastOp.out = IF DateLeq(lastOp.start_from, StartDate) /\ DateLeq(StartDate, WindowHi)
                       THEN <<StartDate>> ELSE <<>>
    /\ (StartDate = NoDate \/ Unrecognized) =>
          /\ Cardinality({id \in DOMAIN tasks : tasks[id].series_id = 1}) <= 1
          /\ \A id \in DOMAIN tasks : tasks[id].series_id = 1 => tasks[id].date = series[1].start_date
          /\ StartDate = NoDate => tasks = <<>>

\* The expansion pass ran again, a day after the one Task of a series with an
\* unrecognized frequency was created.
PermissiveMisconfigurationWitness ==
    /\ Unrecognized /\ StartDate # NoDate
    /\ lastOp.name = "admin_series_expand" /\ today # Today0
    /\ \E id \in DOMAIN tasks : tasks[id].series_id = 1

(***************************************************************************)
(* Properties of the deletions and of the time logs                        *)
(***************************************************************************)
\* The Tasks of series sid that are due on the day or later
DueFrom(sid, day) ==
    {id \in DOMAIN tasks : tasks[id].series_id = sid /\ ~DateLess(_parse_date(tasks[id].date), day)}

\* C27: deleting a series with delete_future set removes exactly the Tasks of that
\* series dated today or later and leaves every other Task as it was; deleting a
\* series without delete_future removes no Task and changes none.
SeriesDeletionCascade ==
    [][\A sid \in 1..MaxSeriesId, delete_future \in {0, 1} :
          admin_series_delete(sid, delete_future) =>
              /\ DOMAIN tasks' = IF delete_future = 1 THEN DOMAIN tasks \ DueFrom(sid, today) ELSE DOMAIN tasks
              /\ \A id \in DOMAIN tasks' : tasks'[id] = tasks[id]]_vars

\* Series 1 was deleted with its future Tasks on the first of January: its Task of
\* December stays, its Task of today is gone, and the Tasks of the reservation, of
\* the operator and of series 2 are there.
SeriesDeletionCascadeWitness ==
    /\ lastOp.name = "admin_series_delete"
    /\ today = Today0
    /\ 1 \notin DOMAIN series
    /\ 4 \notin DOMAIN tasks
    /\ {1, 2, 3, 5} \subseteq DOMAIN tasks
    /\ tasks[3].series_id = 1 /\ tasks[3].date = D(2025, 12, 1)
    /\ tasks[1].booking_id = 101 /\ tasks[5].series_id = 2

\* C28: every TimeLog row references a Task that exists.
NoOrphanedTimeLogs == \A l \in DOMAIN timelogs : timelogs[l].task_id \in DOMAIN tasks

\* A Task made from a reservation
BookingDerived(t) == t.booking_id # NULL

\* C29: a Task has auto_generated set exactly if it was made from a reservation
\* (the Tasks of series and the manual Tasks have it cleared), and no step of
\* admin_task_delete, admin_task_update_manual or cleaner_task_delete acts on a
\* Task made from a reservation.
BookingTasksAutoGenerated ==
    [][/\ \A id \in DOMAIN tasks : tasks[id].auto_generated <=> BookingDerived(tasks[id])
       /\ \A id \in DOMAIN tasks' : tasks'[id].auto_generated <=> BookingDerived(tasks'[id])
       /\ \A id \in DOMAIN tasks, s \in Cleaners :
              BookingDerived(tasks[id]) =>
                  /\ ~admin_task_delete(id)
                  /\ ~admin_task_update_manual(id, D(2026, 1, 7), 120, "", 1)
                  /\ ~cleaner_task_delete(s, id)]_vars

\* A refresh pass has just updated the Task of reservation 101, next to the manual
\* Task the operator has edited and the Tasks of the series.
BookingTasksAutoGeneratedWitness ==
    /\ lastOp.name = "refresh_bookings_job"
    /\ {1, 2, 4, 5} \subseteq DOMAIN tasks
    /\ tasks[1].booking_id = 101 /\ tasks[1].auto_generated
    /\ tasks[2].date = D(2026, 1, 7) /\ ~tasks[2].auto_generated
    /\ tasks[4].series_id = 1 /\ ~tasks[4].auto_generated

\* The open TimeLog rows of a staff member in the table L
OpenOf(L, s) == {l \in DOMAIN L : L[l].staff_id = s /\ L[l].ended_at = NoneStr}

\* C30: each staff member has at most one TimeLog with ended_at null, and a step of
\* cleaner_start closes every open TimeLog the staff member has on other Tasks and
\* sets those Tasks that are 'running' to 'open'.
OneOpenTimeLog ==
    [][/\ \A s \in Cleaners : Cardinality(OpenOf(timelogs, s)) <= 1 /\ Cardinality(OpenOf(timelogs', s)) <= 1
       /\ \A w \in Work :
              cleaner_start(w[1], w[2]) =>
                  \A l \in OpenOf(timelogs, w[1]) :
                      timelogs[l].task_id # w[2] =>
                          /\ l \in DOMAIN timelogs' /\ timelogs'[l].ended_at # NoneStr
                          /\ timelogs[l].task_id \in DOMAIN tasks /\ tasks[timelogs[l].task_id].status = "running"
                               => tasks'[timelogs[l].task_id].status = "open"]_vars

\* Cleaner 1 was running the Task of the reservation and has just started the manual
\* Task: the TimeLog on the first is closed and that Task is 'open' again.
OneOpenTimeLogWitness ==
    /\ lastOp.name = "cleaner_start"
    /\ {1, 2} \subseteq DOMAIN tasks
    /\ tasks[1].status = "open" /\ tasks[2].status = "running"
    /\ \E l \in DOMAIN timelogs : timelogs[l] = [TimeLog(1, 1) EXCEPT !.ended_at = "now"]
    /\ \E l \in DOMAIN timelogs : timelogs[l] = TimeLog(2, 1)

====
